---- MODULE Spec2Model ----
(***************************************************************************)
(* Context-window management of the chat client in src/server.py:          *)
(* the token counter, the transcript store (save / load / list recent),    *)
(* the window trimmer, the prompt builder and the per-turn controller      *)
(* `respond`.                                                              *)
(*                                                                         *)
(* A text is a sequence of chunks.  The tokenizer is an external oracle;   *)
(* it is modelled chunk by chunk: the chunk "L" stands for a long passage  *)
(* of 500 tokens, "P" for a paragraph of 490 tokens, every other chunk is  *)
(* one token, and " " is whitespace.                                       *)
(* A history entry is a tuple of texts; it is a well-formed turn when it   *)
(* has exactly two fields.                                                 *)
(***************************************************************************)
EXTENDS Integers, Sequences, FiniteSets, TLC

VARIABLES
    files,            \* data/conversations: file name -> stored document
    mtime,            \* file name -> last modification (write order)
    now,              \* datetime.now() as last read, in seconds
    writes,           \* number of writes performed on the store so far
    chatbot,          \* value of the chatbot component (session history)
    current_file,     \* value of the current_file gr.State (session key)
    chat_history,     \* respond: the chat_history argument of the running / last call
    profile,          \* profile['my_profile'] handed to respond
    api_key,          \* whether the environment holds DEEPSEEK_API_KEY
    pc,               \* position of the running call
    message,          \* respond: the submitted message
    trimmed_history,  \* respond: trimmed_history of the running turn
    bot_message,      \* respond: bot_message accumulated so far
    stream,           \* respond: fragments still to be produced by the completion stream
    yields,           \* respond: outputs yielded by the running / last call
    effects,          \* respond: store reads, store writes, completion requests and
                      \* exceptions caught in that call
    turns,            \* number of submitted messages so far
    args,             \* arguments of the function applied in the function-level specifications
    ret               \* its return value

vars == <<files, mtime, now, writes, chatbot, current_file, chat_history, profile,
          api_key, pc, message, trimmed_history, bot_message, stream, yields, effects, turns, args, ret>>

storeVars == <<files, mtime, now, writes>>
sessionVars == <<chatbot, current_file, chat_history, profile, api_key, message,
                 trimmed_history, bot_message, stream, yields, effects, turns>>

----------------------------------------------------------------------------
(* Configuration constants                                                 *)

MAX_TOKENS == 4000
MAX_HISTORY_ITEMS == 20

(* Bounds of the model                                                     *)

MaxLen == 5        \* longest history drawn as an input of a function
MaxTurns == 2      \* messages submitted in one session
MaxMerge == 3      \* longest stored context and session history merged
MaxFiles == 3      \* stored records listed by load_recent_conversations

----------------------------------------------------------------------------
(* Token counter                                                           *)

\* len(encoding.encode(chunk)): "L" is a long passage, "P" a paragraph
encoding(chunk) == CASE chunk = "L" -> 500 [] chunk = "P" -> 490 [] OTHER -> 1

\* a value that is not a str (a JSON null read back from a stored record);
\* encoding.encode raises TypeError on it
None == <<"<None>">>

RECURSIVE count_tokens(_)
count_tokens(text) ==
    IF text = <<>> THEN 0
    ELSE IF Len(text) = 1 THEN encoding(text[1])
    ELSE LET half == Len(text) \div 2 IN
         count_tokens(SubSeq(text, 1, half)) + count_tokens(SubSeq(text, half + 1, Len(text)))

\* str.strip(): leading and trailing whitespace removed
RECURSIVE lstrip(_)
lstrip(text) ==
    IF text # <<>> /\ Head(text) = " " THEN lstrip(Tail(text)) ELSE text

RECURSIVE rstrip(_)
rstrip(text) ==
    IF text # <<>> /\ text[Len(text)] = " "
    THEN rstrip(SubSeq(text, 1, Len(text) - 1))
    ELSE text

strip_none(text) == text

strip(text) == rstrip(lstrip(text))

----------------------------------------------------------------------------
(* Inputs                                                                  *)

TurnCheap == << <<"a">>, <<"b">> >>          \* cost 2
TurnBig == << <<"L">>, <<"L">> >>            \* cost 1000
EntryShort == << <<"a">> >>                  \* malformed: one field
EntryLong == << <<"a">>, <<"b">>, <<"a">> >> \* malformed: three fields

Entries == {TurnCheap, TurnBig, EntryShort, EntryLong}

SeqsUpTo(S, n) == UNION {[1..k -> S] : k \in 0..n}

Budgets == {0, 1, 2, 3, 1000, 1002, 2000, 2500, 3000}

TurnFit == << <<"L">>, <<"P">> >>            \* cost 990
BuildEntries == {TurnCheap, TurnBig, TurnFit, EntryShort}

\* the default profile of load_profile, a profile with a long name, and a
\* profile whose interests alone exceed the request budget
ProfileDefault ==
    [name |-> <<"user">>, age |-> 20, profession |-> <<"unset">>,
     interests |-> << <<"unset">>, <<"unset">> >>]
ProfileLong ==
    [name |-> <<"L", "L">>, age |-> 20, profession |-> <<"b">>,
     interests |-> << <<"a">> >>]
ProfileHuge ==
    [name |-> <<"a">>, age |-> 20, profession |-> <<"b">>,
     interests |-> [i \in 1..8 |-> <<"L">>]]
Profiles == {ProfileDefault, ProfileLong, ProfileHuge}

NewMessages == {<<>>, <<"a">>, <<"L", "P">>, <<"L", "P", "a">>, <<"L", "L", "P", "P">>}

\* histories around MAX_HISTORY_ITEMS entries long: an expensive first turn,
\* cheap turns after it, possibly one malformed entry among them
LongHistories ==
    {[i \in 1..n |-> IF i = 1 THEN TurnBig ELSE IF i = n - 3 THEN e ELSE TurnCheap] :
         n \in 20..22, e \in {TurnCheap, EntryShort}}

\* messages typed into the text box, and completions streamed by the provider
Submitted == {<<>>, <<" ">>, <<"a">>, <<"L">>}
Streams == {<< <<"L">>, <<"b">> >>}
NoKeyFragment == <<"[error]", "DEEPSEEK_API_KEY", "not", "set">>

\* f"发生错误: {str(e)}" for the TypeError of the tokenizer
error_msg == <<"error:", "TypeError">>

----------------------------------------------------------------------------
(* Window trimmer                                                          *)

\* the loop of trim_conversation, entry i being the next one visited
RECURSIVE TrimScan(_, _, _, _, _)
TrimScan(conversation, i, total_tokens, trimmed, max_tokens) ==
    IF i = 0 THEN trimmed
    ELSE LET item == conversation[i] IN
         IF Len(item) # 2
         THEN TrimScan(conversation, i - 1, total_tokens, trimmed, max_tokens)
         ELSE LET item_tokens == count_tokens(item[1]) + count_tokens(item[2]) IN
              IF total_tokens + item_tokens > max_tokens
              THEN trimmed
              ELSE TrimScan(conversation, i - 1, total_tokens + item_tokens,
                            <<item>> \o trimmed, max_tokens)

\* mutation: an overflowing turn is skipped and the scan goes on
RECURSIVE TrimScanSkip(_, _, _, _, _)
TrimScanSkip(conversation, i, total_tokens, trimmed, max_tokens) ==
    IF i = 0 THEN trimmed
    ELSE LET item == conversation[i] IN
         IF Len(item) # 2
         THEN TrimScanSkip(conversation, i - 1, total_tokens, trimmed, max_tokens)
         ELSE LET item_tokens == count_tokens(item[1]) + count_tokens(item[2]) IN
              IF total_tokens + item_tokens > max_tokens
              THEN TrimScanSkip(conversation, i - 1, total_tokens, trimmed, max_tokens)
              ELSE TrimScanSkip(conversation, i - 1, total_tokens + item_tokens,
                                <<item>> \o trimmed, max_tokens)

trim_conversation_skip(conversation, max_tokens) ==
    TrimScanSkip(conversation, Len(conversation), 0, <<>>, max_tokens)

\* mutation: the scan stops already when the budget is reached exactly
RECURSIVE TrimScanGe(_, _, _, _, _)
TrimScanGe(conversation, i, total_tokens, trimmed, max_tokens) ==
    IF i = 0 THEN trimmed
    ELSE LET item == conversation[i] IN
         IF Len(item) # 2
         THEN TrimScanGe(conversation, i - 1, total_tokens, trimmed, max_tokens)
         ELSE LET item_tokens == count_tokens(item[1]) + count_tokens(item[2]) IN
              IF total_tokens + item_tokens >= max_tokens
              THEN trimmed
              ELSE TrimScanGe(conversation, i - 1, total_tokens + item_tokens,
                              <<item>> \o trimmed, max_tokens)

trim_conversation_ge(conversation, max_tokens) ==
    TrimScanGe(conversation, Len(conversation), 0, <<>>, max_tokens)

trim_conversation(conversation, max_tokens) ==
    TrimScan(conversation, Len(conversation), 0, <<>>, max_tokens)

\* whether the loop of trim_conversation raises: count_tokens is applied to
\* both fields of every two-field entry the scan visits, before the budget
\* is compared
RECURSIVE TrimRaises(_, _, _, _)
TrimRaises(conversation, i, total_tokens, max_tokens) ==
    IF i = 0 THEN FALSE
    ELSE LET item == conversation[i] IN
         IF Len(item) # 2
         THEN TrimRaises(conversation, i - 1, total_tokens, max_tokens)
         ELSE IF item[1] = None \/ item[2] = None THEN TRUE
         ELSE LET item_tokens == count_tokens(item[1]) + count_tokens(item[2]) IN
              IF total_tokens + item_tokens > max_tokens
              THEN FALSE
              ELSE TrimRaises(conversation, i - 1, total_tokens + item_tokens,
                              max_tokens)

----------------------------------------------------------------------------
(* Prompt builder                                                          *)

\* ', '.join(interests)
RECURSIVE Join(_)
Join(texts) ==
    IF texts = <<>> THEN <<>>
    ELSE IF Len(texts) = 1 THEN texts[1]
    ELSE texts[1] \o <<", ">> \o Join(Tail(texts))

\* the f-string of the system prompt
SystemContent(p) ==
    <<"talking-with:">> \o p.name
        \o <<"age:", ToString(p.age)>>
        \o <<"profession:">> \o p.profession
        \o <<"interests:">> \o Join(p.interests)

\* mutation: the slice s[:n]
FirstN(s, n) == IF Len(s) <= n THEN s ELSE SubSeq(s, 1, n)

\* the slice s[-n:] for n >= 0; s[-0:] is the whole of s
LastN(s, n) == IF n = 0 \/ Len(s) <= n THEN s ELSE SubSeq(s, Len(s) - n + 1, Len(s))

\* the loop of prepare_api_messages over the window, entry i being the next one
RECURSIVE PrepareScan(_, _, _, _)
PrepareScan(window, i, messages, tokens_used) ==
    IF i > Len(window) THEN [messages |-> messages, tokens_used |-> tokens_used]
    ELSE LET item == window[i] IN
         IF Len(item) # 2
         THEN PrepareScan(window, i + 1, messages, tokens_used)
         ELSE LET user_content == [role |-> "user", content |-> item[1]]
                  bot_content == [role |-> "assistant", content |-> item[2]]
                  new_tokens == count_tokens(item[1]) + count_tokens(item[2])
              IN IF tokens_used + new_tokens > MAX_TOKENS
                 THEN [messages |-> messages, tokens_used |-> tokens_used]
                 ELSE PrepareScan(window, i + 1,
                                  messages \o <<user_content, bot_content>>,
                                  tokens_used + new_tokens)

PrepareHistory(conversation, p) ==
    LET system_prompt == [role |-> "system", content |-> SystemContent(p)] IN
    PrepareScan(LastN(conversation, MAX_HISTORY_ITEMS), 1, <<system_prompt>>,
                count_tokens(system_prompt.content))

\* mutation: the new message is appended also when it reaches the budget exactly
prepare_api_messages_le(conversation, p, new_message) ==
    LET scan == PrepareHistory(conversation, p) IN
    IF count_tokens(new_message) + scan.tokens_used <= MAX_TOKENS
    THEN Append(scan.messages, [role |-> "user", content |-> new_message])
    ELSE scan.messages

\* mutation: the new message is appended whatever has been used
prepare_api_messages_always(conversation, p, new_message) ==
    LET scan == PrepareHistory(conversation, p) IN
    Append(scan.messages, [role |-> "user", content |-> new_message])

\* mutation: a system message that leaves no room is dropped from the request
prepare_api_messages_nosystem(conversation, p, new_message) ==
    LET scan == PrepareHistory(conversation, p)
        messages == IF scan.tokens_used > MAX_TOKENS THEN Tail(scan.messages)
                    ELSE scan.messages
    IN IF count_tokens(new_message) + scan.tokens_used < MAX_TOKENS
       THEN Append(messages, [role |-> "user", content |-> new_message])
       ELSE messages

prepare_api_messages(conversation, p, new_message) ==
    LET scan == PrepareHistory(conversation, p) IN
    IF count_tokens(new_message) + scan.tokens_used < MAX_TOKENS
    THEN Append(scan.messages, [role |-> "user", content |-> new_message])
    ELSE scan.messages

----------------------------------------------------------------------------
(* Transcript store                                                        *)
(* A stored document is [valid, messages]: valid is FALSE for a file that  *)
(* json.load cannot read.  mtime is the order of the writes.               *)

RECURSIVE convert_to_openai_format(_)
convert_to_openai_format(history) ==
    IF history = <<>> THEN <<>>
    ELSE LET item == Head(history) IN
         (IF Len(item) = 2
          THEN <<[role |-> "user", content |-> item[1]],
                 [role |-> "assistant", content |-> item[2]]>>
          ELSE <<>>) \o convert_to_openai_format(Tail(history))

\* the loop of convert_from_openai_format from index i (0-based) on
RECURSIVE FromScan(_, _)
FromScan(formatted_history, i) ==
    IF i >= Len(formatted_history) THEN <<>>
    ELSE (IF i + 1 < Len(formatted_history)
          THEN << <<formatted_history[i + 1].content, formatted_history[i + 2].content>> >>
          ELSE <<>>) \o FromScan(formatted_history, i + 2)

\* mutation: user and assistant texts are exchanged
RECURSIVE FromScanSwapped(_, _)
FromScanSwapped(formatted_history, i) ==
    IF i >= Len(formatted_history) THEN <<>>
    ELSE (IF i + 1 < Len(formatted_history)
          THEN << <<formatted_history[i + 2].content, formatted_history[i + 1].content>> >>
          ELSE <<>>) \o FromScanSwapped(formatted_history, i + 2)

convert_from_openai_format_swapped(formatted_history) ==
    FromScanSwapped(formatted_history, 0)

\* mutation: a document of odd length is rejected as a whole
convert_from_openai_format_strict(formatted_history) ==
    IF Len(formatted_history) % 2 = 1 THEN <<>> ELSE FromScan(formatted_history, 0)

convert_from_openai_format(formatted_history) == FromScan(formatted_history, 0)

\* os.path.join(CONVERSATION_DIR, f"conversation_{timestamp}.json")
FileName(timestamp) ==
    "data/conversations/conversation_" \o ToString(timestamp) \o ".json"

\* save_conversation: the store after the call and the returned file name.
\* timestamp is the reading of datetime.now() (used when filename is empty).
\* outcome "ok": the document is written; "open": open() raises and nothing
\* is written; "dump": json.dump raises after open() truncated the file.
save_conversation(conversation, filename, timestamp, outcome) ==
    LET name == IF filename = "" THEN FileName(timestamp) ELSE filename
        doc == [valid |-> TRUE, messages |-> convert_to_openai_format(conversation)]
        torn == [valid |-> FALSE, messages |-> <<>>]
    IN CASE outcome = "ok" ->
                [files |-> (name :> doc) @@ files,
                 mtime |-> (name :> writes + 1) @@ mtime,
                 writes |-> writes + 1,
                 filename |-> name]
         [] outcome = "dump" ->
                [files |-> (name :> torn) @@ files,
                 mtime |-> (name :> writes + 1) @@ mtime,
                 writes |-> writes + 1,
                 filename |-> ""]
         [] OTHER ->
                [files |-> files, mtime |-> mtime, writes |-> writes, filename |-> ""]

SaveOutcomes == {"ok", "open", "dump"}

load_conversation(filename) ==
    IF filename \in DOMAIN files /\ files[filename].valid
    THEN convert_from_openai_format(files[filename].messages)
    ELSE <<>>

\* sorted(files, key=os.path.getmtime, reverse=True)
RECURSIVE SortByMtime(_)
SortByMtime(names) ==
    IF names = {} THEN <<>>
    ELSE LET newest == CHOOSE f \in names : \A g \in names : mtime[g] <= mtime[f]
         IN <<newest>> \o SortByMtime(names \ {newest})

\* mutation: the files are listed oldest first
RECURSIVE SortByMtimeAscending(_)
SortByMtimeAscending(names) ==
    IF names = {} THEN <<>>
    ELSE LET oldest == CHOOSE f \in names : \A g \in names : mtime[f] <= mtime[g]
         IN <<oldest>> \o SortByMtimeAscending(names \ {oldest})

get_conversation_files_oldest_first == SortByMtimeAscending(DOMAIN files)

get_conversation_files == SortByMtime(DOMAIN files)

RECURSIVE LoadAll(_)
LoadAll(names) ==
    IF names = <<>> THEN <<>>
    ELSE load_conversation(Head(names)) \o LoadAll(Tail(names))

load_recent_conversations(max_count) ==
    LastN(LoadAll(SubSeq(get_conversation_files, 1,
                         IF Len(get_conversation_files) < max_count
                         THEN Len(get_conversation_files) ELSE max_count)),
          max_count)

\* documents found in the store when the program starts
DocOf(history) == [valid |-> TRUE, messages |-> convert_to_openai_format(history)]
DocOdd ==
    [valid |-> TRUE,
     messages |-> Append(convert_to_openai_format(<<TurnCheap>>),
                         [role |-> "user", content |-> <<"a">>])]
DocSingle == [valid |-> TRUE, messages |-> <<[role |-> "user", content |-> <<"a">>]>>]
DocGarbage == [valid |-> FALSE, messages |-> <<>>]
\* a record whose first user content is null
DocNull ==
    [valid |-> TRUE,
     messages |-> <<[role |-> "user", content |-> None],
                    [role |-> "assistant", content |-> <<"b">>]>>]
InitialDocs == {DocOf(<<TurnCheap>>), DocOf(<<TurnBig, TurnCheap>>), DocOdd, DocSingle,
                DocGarbage}

InitialName == FileName(0)
InitialStores == {<<>>} \cup {InitialName :> d : d \in InitialDocs}

\* the stores a session is started on
SessionStores == {<<>>, InitialName :> DocOf(<<TurnCheap>>), InitialName :> DocOdd,
                  InitialName :> DocNull}

----------------------------------------------------------------------------
(* Pieces of respond and of call_deepseek_api_stream                       *)

\* the loop of the list comprehension of line 223
RECURSIVE CleanScan(_)
CleanScan(combined_history) ==
    IF combined_history = <<>> THEN <<>>
    ELSE (IF Len(Head(combined_history)) = 2 THEN <<Head(combined_history)>> ELSE <<>>)
             \o CleanScan(Tail(combined_history))

\* mutation: the session history is put in front of the stored context
cleaned_history_session_first(recent_chats, history) == CleanScan(history \o recent_chats)

\* combined_history and cleaned_history: lines 220-223
cleaned_history(recent_chats, history) == CleanScan(recent_chats \o history)

\* mutation: the error turn replaces the session history
error_history_reset(history, m) == << <<m, error_msg>> >>

\* error_history: lines 238-239
error_history(history, m) == history \o << <<m, error_msg>> >>

\* str(messages): the repr of the list of dicts
RECURSIVE StrOfMessages(_)
StrOfMessages(messages) ==
    IF messages = <<>> THEN <<>>
    ELSE <<"{'role': '", Head(messages).role, "', 'content': '">>
             \o Head(messages).content \o <<"'}">>
             \o (IF Len(messages) > 1 THEN <<", ">> ELSE <<>>)
             \o StrOfMessages(Tail(messages))

NoRequest == [issued |-> FALSE, messages |-> <<>>, max_tokens |-> 0]

Min(a, b) == IF a < b THEN a ELSE b

\* the request body of lines 181-188
RequestOf(prompt, conversation, p) ==
    LET messages == prepare_api_messages(conversation, p, prompt) IN
    [issued |-> TRUE,
     messages |-> messages,
     max_tokens |->
         Min(2000, MAX_TOKENS
                     - count_tokens(<<"[">> \o StrOfMessages(messages) \o <<"]">>))]

\* mutation: the return after the missing-key fragment is lost
call_deepseek_api_stream_noreturn(key, prompt, conversation, p, completion) ==
    [fragments |-> (IF ~key THEN <<NoKeyFragment>> ELSE <<>>) \o completion,
     request |-> RequestOf(prompt, conversation, p)]

\* call_deepseek_api_stream: the fragments it yields and the request it
\* posts; completion is what the provider streams back
call_deepseek_api_stream(key, prompt, conversation, p, completion) ==
    IF ~key
    THEN [fragments |-> <<NoKeyFragment>>, request |-> NoRequest]
    ELSE [fragments |-> completion, request |-> RequestOf(prompt, conversation, p)]

----------------------------------------------------------------------------
(* Values the variables of an idle part of the system hold                 *)

NoProfile == [name |-> <<>>, age |-> 0, profession |-> <<>>, interests |-> <<>>]

StoreIdle ==
    /\ files = <<>>
    /\ mtime = <<>>
    /\ now = 0
    /\ writes = 0

SessionIdle ==
    /\ chatbot = <<>>
    /\ chat_history = <<>>
    /\ current_file = ""
    /\ profile = NoProfile
    /\ api_key = FALSE
    /\ message = <<>>
    /\ trimmed_history = <<>>
    /\ bot_message = <<>>
    /\ stream = <<>>
    /\ yields = <<>>
    /\ effects = <<>>
    /\ turns = 0

----------------------------------------------------------------------------
(* SpecTrim: trim_conversation applied to every bounded history and budget *)

InitTrim ==
    /\ StoreIdle
    /\ SessionIdle
    /\ pc = "call"
    /\ args \in [conversation : SeqsUpTo(Entries, MaxLen), max_tokens : Budgets]
    /\ ret = <<>>

TrimCall ==
    /\ pc = "call"
    /\ ret' = trim_conversation(args.conversation, args.max_tokens)
    /\ pc' = "return"
    /\ UNCHANGED <<storeVars, sessionVars, args>>

NextTrim == TrimCall

SpecTrim == InitTrim /\ [][NextTrim]_vars

\* the well-formed (two-field) entries of a history, in order
WellFormed(h) == SelectSeq(h, LAMBDA item : Len(item) = 2)

TurnCost(turn) == count_tokens(turn[1]) + count_tokens(turn[2])

RECURSIVE TotalCost(_)
TotalCost(h) == IF h = <<>> THEN 0 ELSE TurnCost(Head(h)) + TotalCost(Tail(h))

\* the last n entries of h
Suffix(h, n) == SubSeq(h, Len(h) - n + 1, Len(h))

\* C1: the result of trim_conversation is a contiguous suffix of the
\* well-formed entries of the history, in their original order, and its
\* total cost is at most the budget.
C1_SuffixWithinBudget ==
    pc = "return" =>
        LET wf == WellFormed(args.conversation) IN
        /\ Len(ret) <= Len(wf)
        /\ ret = Suffix(wf, Len(ret))
        /\ TotalCost(ret) <= args.max_tokens

C1_Witness ==
    /\ pc = "return"
    /\ Len(WellFormed(args.conversation)) < Len(args.conversation)
    /\ ret # <<>>
    /\ Len(ret) < Len(WellFormed(args.conversation))

\* C2: the result is the longest suffix of the well-formed history that
\* fits the budget: it is the whole history, or the turn just before it
\* would overflow; a most recent turn above the budget gives the empty
\* result; five turns of cost 1000 under a budget of 2500 give the last two.
C2_LongestSuffix ==
    pc = "return" =>
        LET wf == WellFormed(args.conversation) IN
        /\ Len(ret) <= Len(wf)
        /\ ret = Suffix(wf, Len(ret))
        /\ \/ ret = wf
           \/ TotalCost(Suffix(wf, Len(ret) + 1)) > args.max_tokens
        /\ (wf # <<>> /\ TurnCost(wf[Len(wf)]) > args.max_tokens) => ret = <<>>
        /\ (args.conversation = [i \in 1..5 |-> TurnBig] /\ args.max_tokens = 2500)
               => ret = <<TurnBig, TurnBig>>

C2_Witness ==
    /\ pc = "return"
    /\ args.conversation = <<TurnCheap, TurnBig, TurnBig, TurnBig>>
    /\ args.max_tokens = 2500
    /\ ret = <<TurnBig, TurnBig>>

----------------------------------------------------------------------------
(* SpecBuild: prepare_api_messages applied to every bounded history,       *)
(* profile and new message                                                 *)

InitBuild ==
    /\ StoreIdle
    /\ SessionIdle
    /\ pc = "call"
    /\ args \in [conversation : SeqsUpTo(BuildEntries, MaxLen) \cup LongHistories,
                 profile : Profiles,
                 new_message : NewMessages]
    /\ ret = <<>>

PrepareCall ==
    /\ pc = "call"
    /\ ret' = prepare_api_messages(args.conversation, args.profile, args.new_message)
    /\ pc' = "return"
    /\ UNCHANGED <<storeVars, sessionVars, args>>

\* call_deepseek_api_stream on the same arguments: lines 168-210
RequestCall ==
    /\ pc = "call"
    /\ \E key \in BOOLEAN, completion \in Streams :
          ret' = call_deepseek_api_stream(key, args.new_message, args.conversation,
                                          args.profile, completion)
    /\ pc' = "requested"
    /\ UNCHANGED <<storeVars, sessionVars, args>>

NextBuild == PrepareCall \/ RequestCall

SpecBuild == InitBuild /\ [][NextBuild]_vars

RECURSIVE MessagesCost(_)
MessagesCost(messages) ==
    IF messages = <<>> THEN 0
    ELSE count_tokens(Head(messages).content) + MessagesCost(Tail(messages))

\* C3 as stated: the messages of every built request cost at most MAX_TOKENS.
C3_RequestWithinBudget ==
    pc = "return" => MessagesCost(ret) <= MAX_TOKENS

\* C3, amended: when the system message costs at most MAX_TOKENS, the
\* messages of the built request cost at most MAX_TOKENS in total; when it
\* costs more, the request is the system message alone.
C3_RequestWithinBudgetIfSystemFits ==
    pc = "return" =>
        /\ count_tokens(ret[1].content) <= MAX_TOKENS => MessagesCost(ret) <= MAX_TOKENS
        /\ count_tokens(ret[1].content) > MAX_TOKENS => Len(ret) = 1

C3_Witness ==
    /\ pc = "return"
    /\ count_tokens(ret[1].content) <= MAX_TOKENS
    /\ Len(ret) > 2
    /\ Len(ret) < 1 + 2 * Len(WellFormed(args.conversation))
    /\ ret[Len(ret)] = [role |-> "user", content |-> args.new_message]

\* the new message is the last message of the request
NewMessageAppended ==
    /\ Len(ret) % 2 = 0
    /\ ret[Len(ret)] = [role |-> "user", content |-> args.new_message]

\* C9: the new user message is the last message of the built prompt exactly
\* when its cost plus the cost of the system message and of the included
\* history turns is strictly below MAX_TOKENS.
C9_NewMessageIffStrictlyBelow ==
    pc = "return" =>
        LET runningTotal ==
                MessagesCost(IF NewMessageAppended
                             THEN SubSeq(ret, 1, Len(ret) - 1) ELSE ret)
        IN /\ Len(ret) % 2 = 0 => NewMessageAppended
           /\ NewMessageAppended <=>
                  count_tokens(args.new_message) + runningTotal < MAX_TOKENS

C9_Witness ==
    /\ pc = "return"
    /\ ~NewMessageAppended
    /\ Len(ret) > 1
    /\ count_tokens(args.new_message) + MessagesCost(ret) = MAX_TOKENS

\* C10: the built prompt has exactly one system message, at position 0.
C10_OneSystemMessageFirst ==
    pc = "return" =>
        /\ Len(ret) >= 1
        /\ ret[1].role = "system"
        /\ \A i \in 2..Len(ret) : ret[i].role # "system"

C10_Witness ==
    /\ pc = "return"
    /\ WellFormed(args.conversation) # <<>>
    /\ args.new_message # <<>>
    /\ Len(ret) = 1
    /\ ret[1].role = "system"

----------------------------------------------------------------------------
(* SpecStore: save_conversation, then load_conversation of the returned    *)
(* name; and load_conversation of any name                                 *)

InitStore ==
    /\ files \in InitialStores
    /\ mtime = [f \in DOMAIN files |-> 1]
    /\ writes = 1
    /\ now = 1
    /\ SessionIdle
    /\ pc = "call"
    /\ args = [conversation |-> <<>>, filename |-> ""]
    /\ ret = <<>>

SaveCall ==
    /\ pc = "call"
    /\ \E conversation \in SeqsUpTo(Entries, MaxLen),
          filename \in {"", InitialName, FileName(5)},
          outcome \in SaveOutcomes :
          LET saved == save_conversation(conversation, filename, now, outcome) IN
          /\ files' = saved.files
          /\ mtime' = saved.mtime
          /\ writes' = saved.writes
          /\ args' = [conversation |-> conversation, filename |-> filename]
          /\ ret' = saved.filename
    /\ pc' = "saved"
    /\ UNCHANGED <<now, sessionVars>>

LoadSaved ==
    /\ pc = "saved"
    /\ args' = [conversation |-> args.conversation, filename |-> ret]
    /\ ret' = load_conversation(ret)
    /\ pc' = "reloaded"
    /\ UNCHANGED <<storeVars, sessionVars>>

LoadCall ==
    /\ pc = "call"
    /\ \E filename \in {"", InitialName, FileName(5)} :
          /\ args' = [conversation |-> <<>>, filename |-> filename]
          /\ ret' = load_conversation(filename)
    /\ pc' = "loaded"
    /\ UNCHANGED <<storeVars, sessionVars>>

NextStore == SaveCall \/ LoadSaved \/ LoadCall

SpecStore == InitStore /\ [][NextStore]_vars

\* C6 as stated: saving well-formed turns and loading the returned name
\* gives the saved turns back.
C6_RoundTrip ==
    (pc = "reloaded" /\ WellFormed(args.conversation) = args.conversation)
        => ret = args.conversation

\* C6, amended: when save_conversation succeeds (it returns a non-empty
\* name), loading the returned name gives the saved turns back, same length,
\* order and texts; when the write fails it returns "" and loading "" gives
\* the empty sequence.
C6_RoundTripOfSuccessfulSave ==
    (pc = "reloaded" /\ WellFormed(args.conversation) = args.conversation) =>
        /\ args.filename # "" => ret = args.conversation
        /\ args.filename = "" => ret = <<>>

C6_Witness ==
    /\ pc = "reloaded"
    /\ args.filename # ""
    /\ args.conversation = <<TurnCheap, TurnBig, TurnCheap>>
    /\ ret = args.conversation

\* the stored document at the loaded name has an unmatched trailing message
OddRecordLoaded ==
    /\ pc = "loaded"
    /\ args.filename \in DOMAIN files
    /\ files[args.filename].valid
    /\ Len(files[args.filename].messages) % 2 = 1

\* C7 as stated: loading a record of odd length returns the empty sequence.
C7_OddRecordDropped ==
    OddRecordLoaded => ret = <<>>

\* C7, amended: loading a record of odd length returns the turns made of
\* its leading pairs; only the unmatched trailing message is dropped.
C7_OddRecordLoadsLeadingPairs ==
    OddRecordLoaded =>
        LET m == files[args.filename].messages IN
        /\ Len(ret) = (Len(m) - 1) \div 2
        /\ \A k \in 1..Len(ret) : ret[k] = <<m[2 * k - 1].content, m[2 * k].content>>

C7_Witness ==
    /\ OddRecordLoaded
    /\ Len(files[args.filename].messages) = 3
    /\ ret = <<TurnCheap>>

----------------------------------------------------------------------------
(* Spec: one session of the interface.  respond is a generator: it runs    *)
(* from the submit to its first yield, from one yield to the next, and     *)
(* every yielded pair becomes the value of (chatbot, current_file).        *)

Init ==
    /\ files \in SessionStores
    /\ mtime = [f \in DOMAIN files |-> 1]
    /\ writes = 1
    /\ now = 1
    /\ chatbot = load_recent_conversations(30)
    /\ current_file = ""
    /\ chat_history = <<>>
    /\ profile = ProfileDefault
    /\ api_key \in BOOLEAN
    /\ pc = "idle"
    /\ message = <<>>
    /\ trimmed_history = <<>>
    /\ bot_message = <<>>
    /\ stream = <<>>
    /\ yields = <<>>
    /\ effects = <<>>
    /\ turns = 0
    /\ args = <<>>
    /\ ret = <<>>

\* respond with a message that is empty after strip(): lines 213-215
SubmitEmpty ==
    /\ pc = "idle"
    /\ turns < MaxTurns
    /\ \E m \in Submitted :
          /\ strip(m) = <<>>
          /\ message' = m
    /\ chat_history' = chatbot
    /\ yields' = << <<chatbot, current_file>> >>
    /\ effects' = <<>>
    /\ turns' = turns + 1
    /\ pc' = "done"
    /\ UNCHANGED <<storeVars, chatbot, current_file, profile, api_key, trimmed_history,
                   bot_message, stream, args, ret>>

\* respond up to the first fragment of the completion: lines 217-228 and
\* call_deepseek_api_stream up to its first yield (lines 168-191)
Submit ==
    /\ pc = "idle"
    /\ turns < MaxTurns
    /\ \E m \in Submitted, completion \in Streams :
          LET cleaned == cleaned_history(load_recent_conversations(30), chatbot)
              trimmed == trim_conversation(cleaned, MAX_TOKENS \div 2)
              call == call_deepseek_api_stream(api_key, m, trimmed, profile, completion)
          IN /\ strip(m) # <<>>
             /\ ~TrimRaises(cleaned, Len(cleaned), 0, MAX_TOKENS \div 2)
             /\ message' = m
             /\ trimmed_history' = trimmed
             /\ stream' = call.fragments
             /\ effects' = IF call.request.issued THEN <<"load", "request">>
                           ELSE <<"load">>
    /\ chat_history' = chatbot
    /\ bot_message' = <<>>
    /\ yields' = <<>>
    /\ turns' = turns + 1
    /\ pc' = "streaming"
    /\ UNCHANGED <<storeVars, chatbot, current_file, profile, api_key, args, ret>>

\* respond when trim_conversation raises: lines 217-225 and 236-240
SubmitRaise ==
    /\ pc = "idle"
    /\ turns < MaxTurns
    /\ \E m \in Submitted :
          LET cleaned == cleaned_history(load_recent_conversations(30), chatbot) IN
          /\ strip(m) # <<>>
          /\ TrimRaises(cleaned, Len(cleaned), 0, MAX_TOKENS \div 2)
          /\ message' = m
          /\ yields' = << <<error_history(chatbot, m), current_file>> >>
          /\ chatbot' = error_history(chatbot, m)
    /\ chat_history' = chatbot
    /\ effects' = <<"load", "raise">>
    /\ turns' = turns + 1
    /\ pc' = "done"
    /\ UNCHANGED <<storeVars, current_file, profile, api_key, trimmed_history,
                   bot_message, stream, args, ret>>

\* mutation: the snapshot shows the last fragment instead of the accumulated text
FragmentChunkOnly ==
    /\ pc = "streaming"
    /\ stream # <<>>
    /\ bot_message' = bot_message \o Head(stream)
    /\ stream' = Tail(stream)
    /\ LET temp_history == trimmed_history \o << <<message, Head(stream)>> >> IN
       /\ yields' = Append(yields, <<temp_history, current_file>>)
       /\ chatbot' = temp_history
    /\ UNCHANGED <<storeVars, current_file, chat_history, profile, api_key, pc, message,
                   trimmed_history, effects, turns, args, ret>>

\* one fragment arrives: lines 228-231
Fragment ==
    /\ pc = "streaming"
    /\ stream # <<>>
    /\ bot_message' = bot_message \o Head(stream)
    /\ stream' = Tail(stream)
    /\ LET temp_history == trimmed_history \o << <<message, bot_message'>> >> IN
       /\ yields' = Append(yields, <<temp_history, current_file>>)
       /\ chatbot' = temp_history
    /\ UNCHANGED <<storeVars, current_file, chat_history, profile, api_key, pc, message,
                   trimmed_history, effects, turns, args, ret>>

\* the fragment stream has ended: lines 233-235
StreamEnd ==
    /\ pc = "streaming"
    /\ stream = <<>>
    /\ \E outcome \in SaveOutcomes,
          timestamp \in (IF current_file = "" THEN {now, now + 1} ELSE {now}) :
          LET full_conversation == trimmed_history \o << <<message, bot_message>> >>
              saved == save_conversation(full_conversation, current_file, timestamp,
                                         outcome)
          IN /\ now' = timestamp
             /\ files' = saved.files
             /\ mtime' = saved.mtime
             /\ writes' = saved.writes
             /\ current_file' = saved.filename
             /\ yields' = Append(yields, <<full_conversation, saved.filename>>)
             /\ chatbot' = full_conversation
    /\ effects' = Append(effects, "save")
    /\ pc' = "done"
    /\ UNCHANGED <<chat_history, profile, api_key, message, trimmed_history, bot_message, stream,
                   turns, args, ret>>

\* mutation: the partial turn is saved when the generator is closed
AbandonSaving ==
    /\ pc = "streaming"
    /\ yields # <<>>
    /\ LET saved == save_conversation(trimmed_history \o << <<message, bot_message>> >>,
                                      current_file, now, "ok")
       IN /\ files' = saved.files
          /\ mtime' = saved.mtime
          /\ writes' = saved.writes
          /\ current_file' = saved.filename
    /\ pc' = "done"
    /\ UNCHANGED <<now, chatbot, chat_history, profile, api_key, message,
                   trimmed_history, bot_message, stream, yields, effects, turns, args, ret>>

\* the consumer stops iterating the generator while it is suspended at a yield
Abandon ==
    /\ pc = "streaming"
    /\ yields # <<>>
    /\ pc' = "done"
    /\ UNCHANGED <<storeVars, chatbot, current_file, chat_history, profile, api_key, message,
                   trimmed_history, bot_message, stream, yields, effects, turns, args, ret>>

\* the clear button: line 296
Clear ==
    /\ chatbot # <<>>
    /\ chatbot' = <<>>
    /\ UNCHANGED <<storeVars, current_file, chat_history, profile, api_key, pc, message,
                   trimmed_history, bot_message, stream, yields, effects, turns, args, ret>>

\* the generator is exhausted or closed; its frame is gone
Return ==
    /\ pc = "done"
    /\ pc' = "idle"
    /\ chat_history' = <<>>
    /\ message' = <<>>
    /\ trimmed_history' = <<>>
    /\ bot_message' = <<>>
    /\ stream' = <<>>
    /\ yields' = <<>>
    /\ effects' = <<>>
    /\ UNCHANGED <<storeVars, chatbot, current_file, profile, api_key, turns, args, ret>>

Next ==
    \/ SubmitEmpty
    \/ Submit
    \/ SubmitRaise
    \/ Fragment
    \/ StreamEnd
    \/ Abandon
    \/ Return
    \/ Clear

Spec == Init /\ [][Next]_vars

\* the stored records this session has created
CreatedRecords == DOMAIN files \ {InitialName}

\* C4: within one session every save writes to the key the first save
\* minted, so the session never creates more than one stored record.
C4_OneRecordPerSession ==
    Cardinality(CreatedRecords) <= 1

\* C5: when a turn completes and is saved at the session key, the new
\* snapshot is the snapshot saved by the previous turn with exactly one
\* turn (message, full assistant text) appended.
C5_SnapshotGrowsByOneTurn ==
    [][(/\ pc = "streaming"
        /\ pc' = "done"
        /\ current_file # ""
        /\ current_file' = current_file
        /\ writes' = writes + 1)
       => convert_from_openai_format(files'[current_file].messages)
              = Append(convert_from_openai_format(files[current_file].messages),
                       <<message, bot_message>>)]_vars

\* every chunk of the text is whitespace
IsBlank(text) == \A i \in 1..Len(text) : text[i] = " "

\* C8: submitting an empty or whitespace-only message yields exactly one
\* output, the unchanged (chat_history, current_file), and reads nothing,
\* writes nothing and requests no completion; the store is unchanged.
C8_BlankSubmitIsNoOp ==
    /\ [][(pc = "idle" /\ turns' = turns + 1 /\ IsBlank(message'))
          => /\ pc' = "done"
             /\ yields' = << <<chatbot, current_file>> >>
             /\ effects' = <<>>
             /\ files' = files
             /\ mtime' = mtime
             /\ chatbot' = chatbot
             /\ current_file' = current_file]_vars
    /\ []((pc = "done" /\ IsBlank(message))
          => /\ yields = << <<chat_history, current_file>> >>
             /\ effects = <<>>)

C8_Witness ==
    /\ pc = "done"
    /\ message = <<" ">>
    /\ chat_history # <<>>
    /\ current_file # ""
    /\ files # <<>>
    /\ yields = << <<chat_history, current_file>> >>
    /\ effects = <<>>

HasEvent(log, e) == \E i \in 1..Len(log) : log[i] = e

\* the most recent entry of the merged history has a field that is not text
NewestEntryNotText ==
    LET merged == load_recent_conversations(30) \o chatbot IN
    /\ merged # <<>>
    /\ Len(merged[Len(merged)]) = 2
    /\ None \in {merged[Len(merged)][1], merged[Len(merged)][2]}

\* C11: when an exception is raised while a turn is merged, trimmed or
\* streamed, respond yields the session history it was given with the turn
\* (message, error text) appended, yields the session key it was given, and
\* saves nothing.
C11_ExceptionBecomesTurn ==
    [][(/\ turns' = turns + 1
        /\ ~IsBlank(message')
        /\ HasEvent(effects', "raise") \/ NewestEntryNotText)
       => /\ pc' = "done"
          /\ yields' = << <<chatbot \o << <<message', error_msg>> >>, current_file>> >>
          /\ ~HasEvent(effects', "save")
          /\ files' = files
          /\ mtime' = mtime
          /\ current_file' = current_file]_vars

C11_Witness ==
    /\ pc = "done"
    /\ HasEvent(effects, "raise")
    /\ chat_history # <<>>
    /\ Len(chat_history) < Len(load_recent_conversations(30) \o chat_history)
    /\ yields = << <<chat_history \o << <<message, error_msg>> >>, current_file>> >>

\* number of occurrences of e in log
Count(log, e) == Cardinality({i \in 1..Len(log) : log[i] = e})

\* C12: in every execution of respond save_conversation is called at most
\* once and only after the fragment stream has ended; when the consumer
\* abandons the generator after a partial snapshot no record is written or
\* modified and the session key is unchanged.
C12_PersistOnlyOnCompletion ==
    /\ [](/\ Count(effects, "save") <= 1
          /\ HasEvent(effects, "save") => (pc = "done" /\ stream = <<>>))
    /\ [][(files' # files \/ mtime' # mtime)
          => (pc = "streaming" /\ stream = <<>> /\ HasEvent(effects', "save"))]_vars
    /\ [][(pc = "streaming" /\ pc' = "done" /\ stream # <<>>)
          => /\ files' = files
             /\ mtime' = mtime
             /\ current_file' = current_file
             /\ ~HasEvent(effects', "save")]_vars

C12_Witness ==
    /\ pc = "done"
    /\ stream # <<>>
    /\ bot_message # <<>>
    /\ Len(yields) = 1
    /\ ~HasEvent(effects, "save")
    /\ current_file # ""
    /\ load_conversation(current_file) # yields[1][1]

\* the texts of a sequence of fragments, joined
RECURSIVE Joined(_)
Joined(fragments) ==
    IF fragments = <<>> THEN <<>> ELSE Head(fragments) \o Joined(Tail(fragments))

LastOf(s) == s[Len(s)]

\* C13: without a credential the completion stream yields exactly one
\* fragment, the configuration error, and no request is issued; the turn
\* respond records and saves is (message, that fragment).
C13_MissingKeyTurn ==
    ~api_key =>
        /\ ~HasEvent(effects, "request")
        /\ pc = "streaming" =>
              /\ Len(yields) + Len(stream) = 1
              /\ bot_message \o Joined(stream) = NoKeyFragment
        /\ (pc = "done" /\ HasEvent(effects, "save")) =>
              /\ Len(yields) = 2
              /\ LastOf(yields[1][1]) = <<message, NoKeyFragment>>
              /\ LastOf(yields[2][1]) = <<message, NoKeyFragment>>
              /\ current_file # "" =>
                     LastOf(load_conversation(current_file)) = <<message, NoKeyFragment>>

C13_Witness ==
    /\ ~api_key
    /\ pc = "done"
    /\ HasEvent(effects, "save")
    /\ current_file # ""
    /\ trimmed_history # <<>>
    /\ LastOf(load_conversation(current_file)) = <<message, NoKeyFragment>>

\* C14: when the write fails, save_conversation returns "" without raising,
\* no stored record is changed, and respond still yields the final history
\* with the new turn.
C14_FailedSaveChangesNothing ==
    [][(pc = "streaming" /\ HasEvent(effects', "save") /\ current_file' = "")
       => /\ pc' = "done"
          /\ files' = files
          /\ mtime' = mtime
          /\ LastOf(yields') =
                 <<trimmed_history \o << <<message, bot_message>> >>, "">>]_vars

----------------------------------------------------------------------------
(* SpecMerge: the merge of respond applied to every bounded stored context *)
(* and session history                                                     *)

InitMerge ==
    /\ StoreIdle
    /\ SessionIdle
    /\ pc = "call"
    /\ args \in [recent_chats : SeqsUpTo(Entries, MaxMerge),
                 chat_history : SeqsUpTo(Entries, MaxMerge)]
    /\ ret = <<>>

MergeCall ==
    /\ pc = "call"
    /\ ret' = cleaned_history(args.recent_chats, args.chat_history)
    /\ pc' = "return"
    /\ UNCHANGED <<storeVars, sessionVars, args>>

NextMerge == MergeCall

SpecMerge == InitMerge /\ [][NextMerge]_vars

\* positions of the two-field entries of h, and the k-th of them
TurnPositions(h) == {i \in 1..Len(h) : Len(h[i]) = 2}
KthTurnPosition(h, k) ==
    CHOOSE i \in TurnPositions(h) : Cardinality({j \in TurnPositions(h) : j <= i}) = k

\* C15: the merged history is the stored context followed by the session
\* history with the malformed entries removed: every well-formed entry is
\* kept once, in its original relative order.
C15_MergeKeepsTurnsInOrder ==
    pc = "return" =>
        LET both == args.recent_chats \o args.chat_history IN
        /\ Len(ret) = Cardinality(TurnPositions(both))
        /\ \A k \in 1..Len(ret) : ret[k] = both[KthTurnPosition(both, k)]

C15_Witness ==
    /\ pc = "return"
    /\ args.recent_chats = <<TurnBig, EntryShort, TurnCheap>>
    /\ args.chat_history = <<EntryLong, TurnCheap, TurnBig>>
    /\ ret = <<TurnBig, TurnCheap, TurnCheap, TurnBig>>

IsPrefix(s, t) == Len(s) <= Len(t) /\ SubSeq(t, 1, Len(s)) = s

\* the assistant text of the k-th output of the running call
YieldedText(k) == LastOf(yields[k][1])[2]

\* C16: every snapshot emitted while streaming is trimmed_history followed
\* by (message, text so far) with the incoming session key; each text
\* extends the previous one by the fragment received; the final history is
\* trimmed_history followed by (message, all fragments joined) and is the
\* content that is saved.
C16_StreamingSnapshots ==
    /\ []((pc \in {"streaming", "done"} /\ HasEvent(effects, "load")
              /\ ~HasEvent(effects, "raise"))
          => /\ \A k \in 1..Len(yields) :
                    /\ Len(yields[k][1]) = Len(trimmed_history) + 1
                    /\ SubSeq(yields[k][1], 1, Len(trimmed_history)) = trimmed_history
                    /\ LastOf(yields[k][1])[1] = message
                    /\ k > 1 => IsPrefix(YieldedText(k - 1), YieldedText(k))
             /\ (pc = "streaming" /\ yields # <<>>) =>
                    /\ YieldedText(Len(yields)) = bot_message
                    /\ \A k \in 1..Len(yields) : yields[k][2] = current_file
             /\ (pc = "done" /\ HasEvent(effects, "save")) =>
                    /\ stream = <<>>
                    /\ YieldedText(Len(yields)) = bot_message
                    /\ \A k \in 1..(Len(yields) - 1) : yields[k][2] = yields[1][2]
                    /\ current_file # "" =>
                           load_conversation(current_file) = LastOf(yields)[1])
    /\ [][(pc = "streaming" /\ pc' = "streaming" /\ yields' # yields)
          => /\ Len(yields') = Len(yields) + 1
             /\ stream # <<>>
             /\ LastOf(LastOf(yields')[1])[2] = bot_message \o Head(stream)
             /\ bot_message' \o Joined(stream') = bot_message \o Joined(stream)
             /\ LastOf(yields')[2] = current_file
             /\ current_file' = current_file]_vars

C16_Witness ==
    /\ pc = "done"
    /\ HasEvent(effects, "save")
    /\ Len(yields) = 3
    /\ trimmed_history # <<>>
    /\ YieldedText(1) # YieldedText(2)
    /\ YieldedText(2) = YieldedText(3)
    /\ yields[1][2] # ""
    /\ load_conversation(current_file) = LastOf(yields)[1]

\* the messages of a built prompt between the system message and the new message
HistoryPart(messages) ==
    SubSeq(messages, 2, IF Len(messages) % 2 = 0 THEN Len(messages) - 1 ELSE Len(messages))

\* the well-formed turns among the last MAX_HISTORY_ITEMS entries of h
WindowTurns(h) ==
    WellFormed(SubSeq(h, IF Len(h) > MAX_HISTORY_ITEMS
                         THEN Len(h) - MAX_HISTORY_ITEMS + 1 ELSE 1, Len(h)))

\* C17: the history part of the built prompt is a prefix, oldest first, of
\* the turns among the last MAX_HISTORY_ITEMS entries of the history, each
\* turn as its user message followed by its assistant message; it stops at
\* the first turn that would take the running total above MAX_TOKENS, and
\* it never holds more than MAX_HISTORY_ITEMS turns.
C17_HistoryIsWindowPrefix ==
    (pc = "return" /\ "new_message" \in DOMAIN args) =>
        LET part == HistoryPart(ret)
            window == WindowTurns(args.conversation)
            n == Len(part) \div 2
            used == count_tokens(ret[1].content) + TotalCost(SubSeq(window, 1, n))
        IN /\ Len(part) = 2 * n
           /\ n <= Len(window)
           /\ n <= MAX_HISTORY_ITEMS
           /\ \A k \in 1..n :
                  /\ part[2 * k - 1] = [role |-> "user", content |-> window[k][1]]
                  /\ part[2 * k] = [role |-> "assistant", content |-> window[k][2]]
           /\ \/ n = Len(window)
              \/ used + TurnCost(window[n + 1]) > MAX_TOKENS
           /\ n > 0 => used <= MAX_TOKENS

C17_Witness ==
    /\ pc = "return"
    /\ "new_message" \in DOMAIN args
    /\ Len(args.conversation) = 22
    /\ Len(HistoryPart(ret)) = 2 * MAX_HISTORY_ITEMS
    /\ ret[2] = [role |-> "user", content |-> <<"a">>]

----------------------------------------------------------------------------
(* SpecRecent: load_recent_conversations applied to every store of up to   *)
(* MaxFiles records written in any order, for every limit up to MaxFiles   *)

Injections(k) == {p \in [1..k -> 1..k] : \A i, j \in 1..k : p[i] = p[j] => i = j}

InitRecent ==
    /\ \E k \in 0..MaxFiles :
          \E docs \in [1..k -> InitialDocs \cup {DocNull}], order \in Injections(k) :
             LET index(f) == CHOOSE i \in 1..k : FileName(i) = f IN
             /\ files = [f \in {FileName(i) : i \in 1..k} |-> docs[index(f)]]
             /\ mtime = [f \in {FileName(i) : i \in 1..k} |-> order[index(f)]]
             /\ writes = k
    /\ now = MaxFiles + 1
    /\ SessionIdle
    /\ pc = "call"
    /\ args \in [max_count : 0..MaxFiles]
    /\ ret = <<>>

RecentCall ==
    /\ pc = "call"
    /\ ret' = load_recent_conversations(args.max_count)
    /\ pc' = "return"
    /\ UNCHANGED <<storeVars, sessionVars, args>>

NextRecent == RecentCall

SpecRecent == InitRecent /\ [][NextRecent]_vars

\* the turns a stored document holds: none when it cannot be read
RecordTurns(doc) ==
    IF doc.valid
    THEN [k \in 1..(Len(doc.messages) \div 2) |->
              <<doc.messages[2 * k - 1].content, doc.messages[2 * k].content>>]
    ELSE <<>>

\* the r-th most recently modified record
Rank(f) == 1 + Cardinality({g \in DOMAIN files : mtime[g] > mtime[f]})
NthNewest(r) == CHOOSE f \in DOMAIN files : Rank(f) = r

\* the turns of the records of rank r to n, in that order
RECURSIVE TurnsOfRanks(_, _)
TurnsOfRanks(r, n) ==
    IF r > n THEN <<>>
    ELSE RecordTurns(files[NthNewest(r)]) \o TurnsOfRanks(r + 1, n)

\* C18: load_recent_conversations(limit) returns the last limit turns of
\* the turns of the limit most recently modified records, the records taken
\* newest first and each record in its own order; it never returns more
\* than limit turns, and an unreadable record contributes no turns.
C18_RecentTurns ==
    pc = "return" =>
        LET limit == args.max_count
            all == TurnsOfRanks(1, Min(limit, Cardinality(DOMAIN files)))
        IN /\ Len(ret) <= limit
           /\ Len(ret) = Min(limit, Len(all))
           /\ ret = Suffix(all, Len(ret))

C18_Witness ==
    /\ pc = "return"
    /\ args.max_count = 2
    /\ Cardinality(DOMAIN files) = 3
    /\ \E f \in DOMAIN files : ~files[f].valid /\ Rank(f) = 1
    /\ \E f \in DOMAIN files : Rank(f) = 2 /\ Len(RecordTurns(files[f])) = 2
    /\ Len(ret) = 2

----------------------------------------------------------------------------
\* the history respond hands to trim_conversation in the turn under way:
\* the store and chat_history do not change while the turn streams
MergedHistory == cleaned_history(load_recent_conversations(30), chat_history)

\* C19: in a session that started on an empty store, the merged history
\* handed to trim_conversation holds each turn of the session history as
\* often as the session history does: a turn that was also saved to the
\* store is not counted a second time.
C19_EachTurnOnce ==
    (pc = "streaming" /\ InitialName \notin DOMAIN files) =>
        \A i \in 1..Len(chat_history) :
            Count(MergedHistory, chat_history[i]) = Count(chat_history, chat_history[i])

----------------------------------------------------------------------------
\* the history is one trim_conversation returns under the budget of respond
IsTrimmed(conversation) ==
    trim_conversation(conversation, MAX_TOKENS \div 2) = conversation

\* C20: every request issued for a trimmed history carries
\* max_tokens = min(2000, MAX_TOKENS - size of str(messages)), and that
\* number is at least 1.
C20_MaxTokensPositive ==
    (pc = "requested" /\ ret.request.issued /\ IsTrimmed(args.conversation)) =>
        LET size == count_tokens(<<"[">> \o StrOfMessages(ret.request.messages) \o <<"]">>)
        IN /\ ret.request.max_tokens = Min(2000, MAX_TOKENS - size)
           /\ ret.request.max_tokens >= 1

====
